---------------------------- MODULE Spec2Model ----------------------------
(***************************************************************************)
(* komorebi: the command listener and the command processor                *)
(* (komorebi/src/process_command.rs).                                      *)
(*                                                                         *)
(* The window manager is one value behind one mutex.  A listener thread    *)
(* accepts clients, locks the mutex and reads the client's stream line by  *)
(* line (read_commands); each line is decoded to a SocketMessage and       *)
(* handed to process_command.  Indices are 0-based as in the source; the   *)
(* sequences of the model are 1-based, so element i of the source is       *)
(* element i + 1 here.                                                     *)
(***************************************************************************)
EXTENDS Integers, Sequences, FiniteSets, TLC

\* ------------------------------------------------------------------ bounds
\* Workspaces a monitor may hold before NewWorkspace / FocusWorkspaceNumber /
\* EnsureWorkspaces are no longer offered by the clients of the model.
MaxWorkspaces == 4
\* Lines a client writes on one connection.
MaxLines == 4
\* Containers a workspace may hold.
MaxContainers == 2
\* 50-pixel steps a resize delta may be away from 0 in either direction.
MaxResizeSteps == 1

\* The fixed step of ResizeWindow (Option::from(50)).
ResizeStep == 50

\* ------------------------------------------------------------------ values
None == "None"
Komorebi == "Komorebi"
Windows == "Windows"
FocusFollowsMouseImplementation == {Komorebi, Windows}

Previous == "Previous"
Next_ == "Next"
CycleDirection == {Previous, Next_}

Ok == "Ok"
Err == "Err"
Results == {Ok, Err}

\* A rectangle, and Option<Rect> as a record (some = FALSE is None).
Rect(l, t, r, b) == [left |-> l, top |-> t, right |-> r, bottom |-> b]
ZeroRect == Rect(0, 0, 0, 0)
NoRect == [some |-> FALSE, rect |-> ZeroRect]
SomeRect(r) == [some |-> TRUE, rect |-> r]

\* ---------------------------------------------------------------- messages
\* SocketMessage: a tag and its content.  Every message carries every field,
\* unused ones at their default, so that any two messages compare.
Message(type) ==
    [type |-> type, idx |-> 0, n |-> 0, id |-> "", impl |-> Windows,
     enable |-> FALSE, dir |-> Next_, edge |-> "Left"]

MsgIdx(type, i) == [Message(type) EXCEPT !.idx = i]
MsgDir(type, d) == [Message(type) EXCEPT !.dir = d]
MsgId(type, id) == [Message(type) EXCEPT !.id = id]
MsgFfm(type, impl, enable) == [Message(type) EXCEPT !.impl = impl, !.enable = enable]
MsgEnsure(m, n) == [Message("EnsureWorkspaces") EXCEPT !.idx = m, !.n = n]
MsgResize(edge, increase) ==
    [Message("ResizeWindow") EXCEPT !.edge = edge, !.enable = increase]
MsgWsRule(id, m, w) == [Message("WorkspaceRule") EXCEPT !.id = id, !.idx = m, !.n = w]

\* The tags process_command dispatches on that the model covers.
MessageTypes ==
    {"WorkspaceRule", "ManageRule", "FloatRule", "TogglePause",
     "CycleFocusMonitor", "FocusMonitorNumber", "CycleFocusWorkspace",
     "FocusWorkspaceNumber", "Stop", "EnsureWorkspaces", "NewWorkspace",
     "State", "Query", "ResizeWindow", "FocusFollowsMouse",
     "ToggleFocusFollowsMouse", "IdentifyBorderOverflow",
     "IdentifyTrayApplication", "QuickSave", "QuickLoad",
     "AddSubscriber", "RemoveSubscriber", "ToggleMouseFollowsFocus"}

\* A line that is no encoding of a SocketMessage.
MalformedLine == Message("<malformed>")


\* ------------------------------------------------------------ input domains
\* Clients of the command socket.
Clients == {"c1", "c2"}
\* Rule identifiers (executable names, classes, titles).
Identifiers == {"foo.exe", "bar.exe"}
\* Names of subscriber pipes, and the handles connect() may return.
SubscriberNames == {"sub1", "sub2"}
PipeHandles == {"h1", "h2"}
\* Monitor counts the OS may enumerate at startup.
MonitorCounts == {1, 2}

VARIABLES
    \* WindowManager (behind the main mutex)
    monitors,               \* Ring<Monitor>: sequence of monitors
    focused_monitor_idx,    \* index focused in the ring of monitors
    is_paused,
    mouse_follows_focus,
    focus_follows_mouse,    \* None, Komorebi or Windows
    has_pending_raise_op,
    \* process-wide statics, each behind its own mutex
    MANAGE_IDENTIFIERS,
    FLOAT_IDENTIFIERS,
    BORDER_OVERFLOW_IDENTIFIERS,
    TRAY_AND_MULTI_WINDOW_IDENTIFIERS,
    WORKSPACE_RULES,        \* id -> <<monitor_idx, workspace_idx>>
    SUBSCRIPTION_PIPES,     \* subscriber name -> pipe handle
    CUSTOM_FFM,             \* AtomicBool set at startup
    \* the world outside the process
    os_ffm,                 \* the OS's own focus-follows-mouse setting
    cursor_pos,             \* <<m>>: the monitor under the cursor, <<>>: none
    quicksave_file,         \* <<>>: no file, <<json>>: the file's content
    komorebic_sock,         \* responses written while serving the current client
    exited,                 \* std::process::exit was called
    exit_code,              \* <<>>: running, <<n>>: the process exited with code n
    windows_restored,       \* restore_all_windows has shown the windows of every workspace
    \* threads and the command socket
    wm_lock,                \* holder of the main mutex: "free", "listener", "other"
    lpc,                    \* listener thread: "accept", "lock", "read", "notify"
    opc,                    \* the other thread: "idle", or "inside" its use of the manager
    cur,                    \* <<c>>: the client whose stream the listener holds
    backlog,                \* connections not yet accepted, oldest first
    conn,                   \* per client: "none", "queued", "open", "dropped"
    sent,                   \* per client: lines written on its connection
    eof,                    \* per client: the client closed its end
    nread,                  \* lines of the current stream the listener has read
    clog,                   \* what became of each line read from the current stream
    last,                   \* the line handled last, over all connections
    notifications,          \* notifications broadcast while serving the current client
    saved                   \* focused-workspace deltas at the last QuickSave still in force

modelVars == <<monitors, focused_monitor_idx>>
exitVars == <<exited, exit_code, windows_restored>>
ffmVars == <<focus_follows_mouse, has_pending_raise_op, os_ffm>>
ruleVars ==
    <<MANAGE_IDENTIFIERS, FLOAT_IDENTIFIERS, BORDER_OVERFLOW_IDENTIFIERS,
      TRAY_AND_MULTI_WINDOW_IDENTIFIERS, WORKSPACE_RULES>>
\* Everything process_command can touch.
dataVars ==
    <<modelVars, is_paused, mouse_follows_focus, ffmVars, ruleVars,
      SUBSCRIPTION_PIPES, quicksave_file, komorebic_sock, exitVars>>
envVars == <<CUSTOM_FFM, cursor_pos>>
clientVars == <<backlog, conn, sent, eof>>
listenerVars == <<wm_lock, lpc, cur, nread, clog, last, notifications, saved>>
vars == <<dataVars, envVars, clientVars, listenerVars, opc>>

\* ------------------------------------------------------------ domain model
\* Workspace::default(): no containers, no resize adjustments.
DefaultWorkspace ==
    [containers |-> 0, focused_container_idx |-> 0, resize_dimensions |-> <<>>]

\* A monitor as created at startup: one workspace, focused.
NewMonitor == [workspaces |-> <<DefaultWorkspace>>, focused_workspace_idx |-> 0]

\* CycleDirection::next_idx(idx, len): the neighbour, wrapping around.
next_idx(dir, idx, len) ==
    IF dir = Previous
    THEN (IF idx = 0 THEN len - 1 ELSE idx - 1)
    ELSE (IF idx = len - 1 THEN 0 ELSE idx + 1)

\* self.focused_monitor(): Option<&Monitor>.
has_focused_monitor == focused_monitor_idx < Len(monitors)
focused_monitor == monitors[focused_monitor_idx + 1]

\* self.focused_workspace(): the focused workspace of the focused monitor, or
\* an error when there is none.
has_focused_workspace ==
    /\ has_focused_monitor
    /\ focused_monitor.focused_workspace_idx < Len(focused_monitor.workspaces)
focused_workspace ==
    focused_monitor.workspaces[focused_monitor.focused_workspace_idx + 1]

\* The monitors with the focused workspace replaced by ws.
with_focused_workspace(ws) ==
    [monitors EXCEPT
        ![focused_monitor_idx + 1].workspaces[focused_monitor.focused_workspace_idx + 1] = ws]

\* Monitor::focus_workspace(idx) on monitor m of mons: workspaces are created
\* on demand up to idx, then idx is focused.
monitor_focus_workspace(mons, m, idx) ==
    LET ws == mons[m + 1].workspaces
        grown == IF idx < Len(ws) THEN ws
                 ELSE ws \o [i \in 1..(idx + 1 - Len(ws)) |-> DefaultWorkspace]
    IN  [mons EXCEPT ![m + 1] = [workspaces |-> grown, focused_workspace_idx |-> idx]]

\* Monitor::ensure_workspace_count(n): grows to n workspaces, never shrinks.
monitor_ensure_workspace_count(mons, m, n) ==
    LET ws == mons[m + 1].workspaces
    IN  IF Len(ws) >= n THEN mons
        ELSE [mons EXCEPT ![m + 1].workspaces =
                 ws \o [i \in 1..(n - Len(ws)) |-> DefaultWorkspace]]


\* The parts of dataVars a handler leaves alone, by what it writes.
nonModelData ==
    <<is_paused, mouse_follows_focus, ffmVars, ruleVars, SUBSCRIPTION_PIPES,
      quicksave_file, komorebic_sock, exitVars>>
nonRuleData ==
    <<modelVars, is_paused, mouse_follows_focus, ffmVars, SUBSCRIPTION_PIPES,
      quicksave_file, komorebic_sock, exitVars>>
nonFfmData ==
    <<modelVars, is_paused, mouse_follows_focus, ruleVars, SUBSCRIPTION_PIPES,
      quicksave_file, komorebic_sock, exitVars>>

\* ------------------------------------------------- process_command: rules
\* Vec::contains, then Vec::push.
Contains(v, id) == \E i \in 1..Len(v) : v[i] = id
PushUnique(v, id) == IF Contains(v, id) THEN v ELSE Append(v, id)

\* HashMap::insert: the value of key k becomes x, whether or not k was there.
MapInsert(map, k, x) ==
    [j \in DOMAIN map \cup {k} |-> IF j = k THEN x ELSE map[j]]
\* HashMap::remove.
MapRemove(map, k) == [j \in DOMAIN map \ {k} |-> map[j]]

\* WorkspaceRule: the rule is inserted, the lock released, then the
\* enforcement pass runs and may fail.
WorkspaceRule(message, r) ==
    /\ WORKSPACE_RULES' = MapInsert(WORKSPACE_RULES, message.id, <<message.idx, message.n>>)
    /\ r \in Results
    /\ UNCHANGED <<nonRuleData, MANAGE_IDENTIFIERS, FLOAT_IDENTIFIERS,
                   BORDER_OVERFLOW_IDENTIFIERS, TRAY_AND_MULTI_WINDOW_IDENTIFIERS>>

\* (mutant) ManageRule pushing without the contains check.
ManageRule_push(message, r) ==
    /\ MANAGE_IDENTIFIERS' = Append(MANAGE_IDENTIFIERS, message.id)
    /\ r = Ok
    /\ UNCHANGED <<nonRuleData, FLOAT_IDENTIFIERS, BORDER_OVERFLOW_IDENTIFIERS,
                   TRAY_AND_MULTI_WINDOW_IDENTIFIERS, WORKSPACE_RULES>>

ManageRule(message, r) ==
    /\ MANAGE_IDENTIFIERS' = PushUnique(MANAGE_IDENTIFIERS, message.id)
    /\ r = Ok
    /\ UNCHANGED <<nonRuleData, FLOAT_IDENTIFIERS, BORDER_OVERFLOW_IDENTIFIERS,
                   TRAY_AND_MULTI_WINDOW_IDENTIFIERS, WORKSPACE_RULES>>

FloatRule(message, r) ==
    /\ FLOAT_IDENTIFIERS' = PushUnique(FLOAT_IDENTIFIERS, message.id)
    /\ r = Ok
    /\ UNCHANGED <<nonRuleData, MANAGE_IDENTIFIERS, BORDER_OVERFLOW_IDENTIFIERS,
                   TRAY_AND_MULTI_WINDOW_IDENTIFIERS, WORKSPACE_RULES>>

IdentifyBorderOverflow(message, r) ==
    /\ BORDER_OVERFLOW_IDENTIFIERS' = PushUnique(BORDER_OVERFLOW_IDENTIFIERS, message.id)
    /\ r = Ok
    /\ UNCHANGED <<nonRuleData, MANAGE_IDENTIFIERS, FLOAT_IDENTIFIERS,
                   TRAY_AND_MULTI_WINDOW_IDENTIFIERS, WORKSPACE_RULES>>

\* (mutant) IdentifyTrayApplication pushing into the border-overflow table.
IdentifyTrayApplication_border(message, r) ==
    /\ BORDER_OVERFLOW_IDENTIFIERS' = PushUnique(BORDER_OVERFLOW_IDENTIFIERS, message.id)
    /\ r = Ok
    /\ UNCHANGED <<nonRuleData, MANAGE_IDENTIFIERS, FLOAT_IDENTIFIERS,
                   TRAY_AND_MULTI_WINDOW_IDENTIFIERS, WORKSPACE_RULES>>

IdentifyTrayApplication(message, r) ==
    /\ TRAY_AND_MULTI_WINDOW_IDENTIFIERS' =
           PushUnique(TRAY_AND_MULTI_WINDOW_IDENTIFIERS, message.id)
    /\ r = Ok
    /\ UNCHANGED <<nonRuleData, MANAGE_IDENTIFIERS, FLOAT_IDENTIFIERS,
                   BORDER_OVERFLOW_IDENTIFIERS, WORKSPACE_RULES>>

\* ------------------------------------------------- process_command: pause
\* TogglePause: the flag is flipped.
TogglePause(message, r) ==
    /\ is_paused' = ~is_paused
    /\ r = Ok
    /\ UNCHANGED <<modelVars, mouse_follows_focus, ffmVars, ruleVars,
                   SUBSCRIPTION_PIPES, quicksave_file, komorebic_sock, exitVars>>

ToggleMouseFollowsFocus(message, r) ==
    /\ mouse_follows_focus' = ~mouse_follows_focus
    /\ r = Ok
    /\ UNCHANGED <<modelVars, is_paused, ffmVars, ruleVars,
                   SUBSCRIPTION_PIPES, quicksave_file, komorebic_sock, exitVars>>

\* (mutant) Stop restoring the windows and returning instead of exiting.
Stop_return(message, r) ==
    /\ windows_restored' = TRUE
    /\ r = Ok
    /\ UNCHANGED <<modelVars, is_paused, mouse_follows_focus, ffmVars, ruleVars,
                   SUBSCRIPTION_PIPES, quicksave_file, komorebic_sock, exited,
                   exit_code>>

\* Stop: the hidden windows are restored and the process exits; the call
\* never returns.
Stop(message, r) ==
    /\ windows_restored' = TRUE
    /\ exit_code' = <<0>>
    /\ exited' = TRUE
    /\ r = Ok
    /\ UNCHANGED <<modelVars, is_paused, mouse_follows_focus, ffmVars, ruleVars,
                   SUBSCRIPTION_PIPES, quicksave_file, komorebic_sock>>

\* ------------------------------------------------- process_command: focus
\* WindowManager::focus_monitor(idx): an error when idx is no monitor.
focus_monitor_ok(idx) == idx < Len(monitors)

\* WindowManager::focus_workspace(idx): the focused monitor focuses idx
\* (creating workspaces on demand), then the layout is reconciled, which
\* may fail in the OS after the model has changed.
focus_workspace(mons, m, idx, r) ==
    /\ monitors' = monitor_focus_workspace(mons, m, idx)
    /\ r \in Results

\* CycleFocusMonitor: next_idx over the monitors, focus_monitor, then
\* update_focused_workspace (which may fail in the OS).
CycleFocusMonitor(message, r) ==
    /\ IF Len(monitors) = 0
       THEN r = Err /\ UNCHANGED modelVars
       ELSE LET monitor_idx == next_idx(message.dir, focused_monitor_idx, Len(monitors))
            IN  IF focus_monitor_ok(monitor_idx)
                THEN /\ focused_monitor_idx' = monitor_idx
                     /\ r \in Results
                     /\ UNCHANGED monitors
                ELSE r = Err /\ UNCHANGED modelVars
    /\ UNCHANGED nonModelData

\* (mutant) FocusMonitorNumber storing the index without focus_monitor's check.
FocusMonitorNumber_unchecked(message, r) ==
    /\ focused_monitor_idx' = message.idx
    /\ r \in Results
    /\ UNCHANGED <<monitors, nonModelData>>

FocusMonitorNumber(message, r) ==
    /\ IF focus_monitor_ok(message.idx)
       THEN /\ focused_monitor_idx' = message.idx
            /\ r \in Results
            /\ UNCHANGED monitors
       ELSE r = Err /\ UNCHANGED modelVars
    /\ UNCHANGED nonModelData

\* CycleFocusWorkspace: the monitor under the cursor is focused first, then
\* the neighbour of its focused workspace.
\* CycleFocusWorkspace acting on the focused monitor, the cursor ignored.
CycleFocusWorkspace_nofocus(message, r) ==
    /\ LET mon == monitors[focused_monitor_idx + 1]
       IN  /\ UNCHANGED focused_monitor_idx
           /\ focus_workspace(monitors, focused_monitor_idx,
                  next_idx(message.dir, mon.focused_workspace_idx, Len(mon.workspaces)), r)
    /\ UNCHANGED nonModelData

CycleFocusWorkspace(message, r) ==
    /\ IF cursor_pos = <<>>
       THEN r = Err /\ UNCHANGED modelVars
       ELSE LET monitor_idx == cursor_pos[1]
            IN  IF ~focus_monitor_ok(monitor_idx)
                THEN r = Err /\ UNCHANGED modelVars
                ELSE LET mon == monitors[monitor_idx + 1]
                         workspaces == Len(mon.workspaces)
                     IN  /\ focused_monitor_idx' = monitor_idx
                         /\ IF workspaces = 0
                            THEN r = Err /\ UNCHANGED monitors
                            ELSE focus_workspace(monitors, monitor_idx,
                                     next_idx(message.dir, mon.focused_workspace_idx, workspaces), r)
    /\ UNCHANGED nonModelData

FocusWorkspaceNumber(message, r) ==
    /\ IF cursor_pos = <<>>
       THEN r = Err /\ UNCHANGED modelVars
       ELSE LET monitor_idx == cursor_pos[1]
            IN  IF ~focus_monitor_ok(monitor_idx)
                THEN r = Err /\ UNCHANGED modelVars
                ELSE /\ focused_monitor_idx' = monitor_idx
                     /\ focus_workspace(monitors, monitor_idx, message.idx, r)
    /\ UNCHANGED nonModelData

\* EnsureWorkspaces(monitor_idx, workspace_count).
EnsureWorkspaces(message, r) ==
    /\ IF message.idx < Len(monitors)
       THEN /\ monitors' = monitor_ensure_workspace_count(monitors, message.idx, message.n)
            /\ r = Ok
       ELSE r = Err /\ UNCHANGED monitors
    /\ UNCHANGED <<focused_monitor_idx, nonModelData>>

\* NewWorkspace: a workspace is appended to the focused monitor and focused.
NewWorkspace(message, r) ==
    /\ IF has_focused_monitor
       THEN focus_workspace(monitors, focused_monitor_idx, Len(focused_monitor.workspaces), r)
       ELSE r = Err /\ UNCHANGED monitors
    /\ UNCHANGED <<focused_monitor_idx, nonModelData>>


\* ------------------------------------- process_command: State and Query
\* The response goes to <home>/komorebic.sock; connecting to it may fail.
State(message, r) ==
    /\ \/ r = Ok /\ komorebic_sock' = komorebic_sock + 1
       \/ r = Err /\ UNCHANGED komorebic_sock
    /\ UNCHANGED <<modelVars, is_paused, mouse_follows_focus, ffmVars, ruleVars,
                   SUBSCRIPTION_PIPES, quicksave_file, exitVars>>

\* Query(kind): message.id names the index asked for.
QueryAnswerable(kind) ==
    CASE kind = "FocusedMonitorIndex" -> TRUE
      [] kind = "FocusedWorkspaceIndex" -> has_focused_monitor
      [] kind = "FocusedContainerIndex" -> has_focused_workspace
      [] OTHER -> has_focused_workspace /\ focused_workspace.containers > 0

Query(message, r) ==
    /\ \/ r = Ok /\ QueryAnswerable(message.id) /\ komorebic_sock' = komorebic_sock + 1
       \/ r = Err /\ UNCHANGED komorebic_sock
    /\ UNCHANGED <<modelVars, is_paused, mouse_follows_focus, ffmVars, ruleVars,
                   SUBSCRIPTION_PIPES, quicksave_file, exitVars>>

\* ------------------------------------- process_command: focus follows mouse
\* (mutant) the requested implementation taken as asked, flag or no flag.
Implementation_asked(message) == message.impl

\* Without --ffm the requested implementation becomes the OS's.
Implementation(message) == IF ~CUSTOM_FFM THEN Windows ELSE message.impl

\* (mutant) FocusFollowsMouse enabling the internal implementation without
\* asking the OS whether its own is on.
FocusFollowsMouse_nocheck(message, r) ==
    /\ \/ /\ Implementation(message) = Komorebi
          /\ r = Ok
          /\ IF message.enable
             THEN /\ focus_follows_mouse' = Komorebi
                  /\ UNCHANGED <<has_pending_raise_op, os_ffm>>
             ELSE /\ focus_follows_mouse' = None
                  /\ has_pending_raise_op' = FALSE
                  /\ UNCHANGED os_ffm
       \/ /\ Implementation(message) = Windows
          /\ IF focus_follows_mouse = Komorebi
             THEN r = Ok /\ UNCHANGED ffmVars
             ELSE /\ r = Ok
                  /\ os_ffm' = message.enable
                  /\ focus_follows_mouse' = IF message.enable THEN Windows ELSE None
                  /\ UNCHANGED has_pending_raise_op
    /\ UNCHANGED nonFfmData

\* FocusFollowsMouse(implementation, enable).  Every call into WindowsApi
\* may fail, and then the command ends with that error.
FocusFollowsMouse(message, r) ==
    /\ \/ /\ Implementation(message) = Komorebi
          /\ \/ r = Err /\ UNCHANGED ffmVars
             \/ /\ r = Ok
                /\ IF os_ffm
                   THEN UNCHANGED ffmVars
                   ELSE IF message.enable
                   THEN /\ focus_follows_mouse' = Komorebi
                        /\ UNCHANGED <<has_pending_raise_op, os_ffm>>
                   ELSE /\ focus_follows_mouse' = None
                        /\ has_pending_raise_op' = FALSE
                        /\ UNCHANGED os_ffm
       \/ /\ Implementation(message) = Windows
          /\ IF focus_follows_mouse = Komorebi
             THEN r = Ok /\ UNCHANGED ffmVars
             ELSE \/ r = Err /\ UNCHANGED ffmVars
                  \/ /\ r = Ok
                     /\ os_ffm' = message.enable
                     /\ focus_follows_mouse' = IF message.enable THEN Windows ELSE None
                     /\ UNCHANGED has_pending_raise_op
    /\ UNCHANGED nonFfmData

\* ToggleFocusFollowsMouse(implementation).
ToggleFocusFollowsMouse(message, r) ==
    /\ \/ /\ Implementation(message) = Komorebi
          /\ \/ r = Err /\ UNCHANGED ffmVars
             \/ /\ r = Ok
                /\ IF os_ffm
                   THEN UNCHANGED ffmVars
                   ELSE CASE focus_follows_mouse = None ->
                                 /\ focus_follows_mouse' = Komorebi
                                 /\ has_pending_raise_op' = FALSE
                                 /\ UNCHANGED os_ffm
                          [] focus_follows_mouse = Komorebi ->
                                 /\ focus_follows_mouse' = None
                                 /\ UNCHANGED <<has_pending_raise_op, os_ffm>>
                          [] OTHER -> UNCHANGED ffmVars
       \/ /\ Implementation(message) = Windows
          /\ IF focus_follows_mouse = Komorebi
             THEN r = Ok /\ UNCHANGED ffmVars
             ELSE \/ r = Err /\ UNCHANGED ffmVars
                  \/ /\ r = Ok
                     /\ os_ffm' = (focus_follows_mouse = None)
                     /\ focus_follows_mouse' =
                            IF focus_follows_mouse = None THEN Windows ELSE None
                     /\ UNCHANGED has_pending_raise_op
    /\ UNCHANGED nonFfmData

\* ------------------------------------------ process_command: subscribers
\* AddSubscriber: connect() to \\.\pipe\<subscriber> fails when the pipe does
\* not exist; on success the handle is inserted under the name.
AddSubscriber(message, r) ==
    /\ \/ r = Err /\ UNCHANGED SUBSCRIPTION_PIPES
       \/ /\ r = Ok
          /\ \E pipe \in PipeHandles :
                 SUBSCRIPTION_PIPES' = MapInsert(SUBSCRIPTION_PIPES, message.id, pipe)
    /\ UNCHANGED <<modelVars, is_paused, mouse_follows_focus, ffmVars, ruleVars,
                   quicksave_file, komorebic_sock, exitVars>>

\* (mutant) RemoveSubscriber leaving the entry in the registry.
RemoveSubscriber_keep(message, r) ==
    /\ r = Ok
    /\ UNCHANGED dataVars

\* RemoveSubscriber: the entry of the name, if any, is dropped.
RemoveSubscriber(message, r) ==
    /\ SUBSCRIPTION_PIPES' = MapRemove(SUBSCRIPTION_PIPES, message.id)
    /\ r = Ok
    /\ UNCHANGED <<modelVars, is_paused, mouse_follows_focus, ffmVars, ruleVars,
                   quicksave_file, komorebic_sock, exitVars>>


\* ------------------------------------------------ process_command: resize
\* The rectangle r with the side named by edge moved by d.
AdjustRect(rc, edge, d) ==
    CASE edge = "Left" -> [rc EXCEPT !.left = @ + d]
      [] edge = "Up" -> [rc EXCEPT !.top = @ + d]
      [] edge = "Right" -> [rc EXCEPT !.right = @ + d]
      [] OTHER -> [rc EXCEPT !.bottom = @ + d]

Abs(x) == IF x < 0 THEN 0 - x ELSE x
RectWithin(rc, lim) ==
    /\ Abs(rc.left) <= lim /\ Abs(rc.top) <= lim
    /\ Abs(rc.right) <= lim /\ Abs(rc.bottom) <= lim

\* WindowManager::resize_window(direction, sizing, Some(50)): the focused
\* container's delta moves by one step on the side given; a delta already
\* at the edge of what the screen allows stays as it is.
resize_window(ws, edge, increase) ==
    LET i == ws.focused_container_idx + 1
        old == ws.resize_dimensions[i]
        new == AdjustRect(old.rect, edge, IF increase THEN ResizeStep ELSE 0 - ResizeStep)
    IN  IF RectWithin(new, MaxResizeSteps * ResizeStep)
        THEN [ws EXCEPT !.resize_dimensions[i] = SomeRect(new)]
        ELSE ws

ResizeWindow(message, r) ==
    /\ IF /\ has_focused_workspace
          /\ focused_workspace.containers > 0
          /\ focused_workspace.focused_container_idx < Len(focused_workspace.resize_dimensions)
       THEN /\ monitors' = with_focused_workspace(
                    resize_window(focused_workspace, message.edge, message.enable))
            /\ r \in Results
       ELSE r = Err /\ UNCHANGED monitors
    /\ UNCHANGED <<focused_monitor_idx, nonModelData>>

\* --------------------------------------- process_command: QuickSave/QuickLoad
\* serde_json of Vec<Option<Rect>>: null for None, an object of the four
\* sides for Some.  A JSON value of the model is the sequence of the array's
\* elements, each null or the sides in the order they are written.
JsonNull == [null |-> TRUE, sides |-> <<0, 0, 0, 0>>]
ToJson(resize) ==
    [i \in 1..Len(resize) |->
        IF resize[i].some
        THEN [null |-> FALSE,
              sides |-> <<resize[i].rect.left, resize[i].rect.top,
                          resize[i].rect.right, resize[i].rect.bottom>>]
        ELSE JsonNull]
\* (mutant) a null read back as a delta of zero instead of no delta.
FromJson_nonull(json) ==
    [i \in 1..Len(json) |->
        SomeRect(IF json[i].null
                 THEN ZeroRect
                 ELSE Rect(json[i].sides[1], json[i].sides[2],
                           json[i].sides[3], json[i].sides[4]))]

FromJson(json) ==
    [i \in 1..Len(json) |->
        IF json[i].null
        THEN NoRect
        ELSE SomeRect(Rect(json[i].sides[1], json[i].sides[2],
                           json[i].sides[3], json[i].sides[4]))]

\* A file: what was written, and whether the write completed.
FileOf(json) == [complete |-> TRUE, json |-> json]
TruncatedFile == [complete |-> FALSE, json |-> <<>>]

\* QuickSave: the focused workspace's deltas are written to
\* <temp>/komorebi.quicksave.json, which is truncated on open.
QuickSave(message, r) ==
    /\ IF ~has_focused_workspace
       THEN r = Err /\ UNCHANGED quicksave_file
       ELSE \/ r = Ok
               /\ quicksave_file' = <<FileOf(ToJson(focused_workspace.resize_dimensions))>>
            \/ r = Err /\ UNCHANGED quicksave_file
            \/ r = Err /\ quicksave_file' = <<TruncatedFile>>
    /\ UNCHANGED <<modelVars, is_paused, mouse_follows_focus, ffmVars, ruleVars,
                   SUBSCRIPTION_PIPES, komorebic_sock, exitVars>>

\* QuickLoad: the file is read back into the focused workspace, then the
\* layout is reconciled (which may fail in the OS).  Without a focused
\* workspace, without the file, with a file that does not parse or with a
\* read that fails, nothing is set.
QuickLoad(message, r) ==
    /\ IF /\ has_focused_workspace
          /\ quicksave_file # <<>>
          /\ quicksave_file[1].complete
       THEN \/ /\ monitors' = with_focused_workspace(
                       [focused_workspace EXCEPT
                           !.resize_dimensions = FromJson(quicksave_file[1].json)])
               /\ r \in Results
            \/ r = Err /\ UNCHANGED monitors
       ELSE r = Err /\ UNCHANGED monitors
    /\ UNCHANGED <<focused_monitor_idx, nonModelData>>

\* --------------------------------------------------------- process_command
\* validate_virtual_desktop_id only logs; then the message is dispatched.
process_command(message, r) ==
    CASE message.type = "WorkspaceRule" -> WorkspaceRule(message, r)
      [] message.type = "ManageRule" -> ManageRule(message, r)
      [] message.type = "FloatRule" -> FloatRule(message, r)
      [] message.type = "TogglePause" -> TogglePause(message, r)
      [] message.type = "CycleFocusMonitor" -> CycleFocusMonitor(message, r)
      [] message.type = "FocusMonitorNumber" -> FocusMonitorNumber(message, r)
      [] message.type = "CycleFocusWorkspace" -> CycleFocusWorkspace(message, r)
      [] message.type = "FocusWorkspaceNumber" -> FocusWorkspaceNumber(message, r)
      [] message.type = "Stop" -> Stop(message, r)
      [] message.type = "EnsureWorkspaces" -> EnsureWorkspaces(message, r)
      [] message.type = "NewWorkspace" -> NewWorkspace(message, r)
      [] message.type = "State" -> State(message, r)
      [] message.type = "Query" -> Query(message, r)
      [] message.type = "ResizeWindow" -> ResizeWindow(message, r)
      [] message.type = "FocusFollowsMouse" -> FocusFollowsMouse(message, r)
      [] message.type = "ToggleFocusFollowsMouse" -> ToggleFocusFollowsMouse(message, r)
      [] message.type = "IdentifyBorderOverflow" -> IdentifyBorderOverflow(message, r)
      [] message.type = "IdentifyTrayApplication" -> IdentifyTrayApplication(message, r)
      [] message.type = "QuickSave" -> QuickSave(message, r)
      [] message.type = "QuickLoad" -> QuickLoad(message, r)
      [] message.type = "AddSubscriber" -> AddSubscriber(message, r)
      [] message.type = "RemoveSubscriber" -> RemoveSubscriber(message, r)
      [] OTHER -> ToggleMouseFollowsFocus(message, r)


\* ------------------------------------------------------------- the listener
EmptyMap == [j \in {} |-> 0]

\* What became of a line read from a stream.
Entry(line, result) ==
    [msg |-> line, paused |-> is_paused, result |-> result, notified |-> FALSE]

\* The record of the line handled last, kept for the commands that undo one
\* another (TogglePause, AddSubscriber and RemoveSubscriber): the line,
\* whether the manager was paused and which subscribers were registered when
\* it was read, how it ended, and the same of the record it replaces.  Any other line leaves NoLine.
PairedTypes == {"TogglePause", "AddSubscriber", "RemoveSubscriber"}
LastRecord(line, paused, result, pipes, focus, before) ==
    [msg |-> line, paused |-> paused, result |-> result, pipes |-> pipes,
     focus |-> focus, before |-> before]
NoLine == LastRecord(Message("<none>"), FALSE, "none", EmptyMap, <<>>,
                     [type |-> "<none>", paused |-> FALSE, id |-> "", pipes |-> EmptyMap,
                      dir |-> ""])
\* The monitor under the cursor and its focused workspace, as
\* monitor_idx_from_current_pos and focused_workspace_idx give them.
FocusUnderCursor ==
    IF cursor_pos = <<>>
    THEN <<>>
    ELSE IF cursor_pos[1] >= Len(monitors)
         THEN <<>>
         ELSE <<cursor_pos[1], monitors[cursor_pos[1] + 1].focused_workspace_idx>>
LastOf(line, result) ==
    IF line.type \in PairedTypes
    THEN LastRecord(line, is_paused, result, SUBSCRIPTION_PIPES, <<>>,
                    [type |-> last.msg.type, paused |-> last.paused,
                     id |-> last.msg.id, pipes |-> last.pipes, dir |-> ""])
    ELSE IF line.type = "CycleFocusWorkspace" /\ result = "ok"
         THEN LastRecord(line, FALSE, result, EmptyMap, FocusUnderCursor,
                         IF last.msg.type = line.type
                         THEN [NoLine.before EXCEPT !.type = line.type, !.dir = last.msg.dir]
                         ELSE NoLine.before)
         ELSE NoLine

\* The deltas a QuickSave wrote stay the reference for a later QuickLoad
\* while only resize commands are handled on the same focused workspace.
SavedAfter(line, result) ==
    IF result \in {"ignored", "malformed"} THEN saved
    ELSE IF line.type = "QuickSave"
    THEN (IF result = "ok"
          THEN <<[resize |-> focused_workspace.resize_dimensions, changed |-> FALSE]>>
          ELSE <<>>)
    ELSE IF line.type = "ResizeWindow" /\ saved # <<>>
    THEN <<[saved[1] EXCEPT !.changed = @ \/ monitors' # monitors]>>
    ELSE IF line.type = "QuickLoad" THEN saved
    ELSE <<>>

\* The bookkeeping of one line of read_commands: the line is recorded, and
\* the listener goes on to the notification ("notify"), to the next line
\* ("read") or, with a return from read_commands, back to accepting
\* ("accept"): a return drops the stream and releases the main mutex (the
\* guard of wm.lock() in listen_for_commands dies with the statement).
Handled(line, result, goto) ==
    /\ nread' = nread + 1
    /\ clog' = Append(clog, Entry(line, result))
    /\ last' = LastOf(line, result)
    /\ saved' = SavedAfter(line, result)
    /\ IF exited'
       THEN lpc' = "exited" /\ UNCHANGED <<wm_lock, conn>>
       ELSE IF goto = "accept"
       THEN /\ lpc' = "accept"
            /\ wm_lock' = "free"
            /\ conn' = [conn EXCEPT ![cur[1]] = "dropped"]
       ELSE lpc' = goto /\ UNCHANGED <<wm_lock, conn>>
    /\ UNCHANGED <<cur, notifications, backlog, sent, eof, envVars, opc>>

ResultOf(r) == IF r = Ok THEN "ok" ELSE "err"

\* The commands honoured while paused.
HonouredWhilePaused == {"TogglePause", "State", "Stop"}

\* The model stops short of a monitor with more than MaxWorkspaces workspaces.
WithinBounds(line) ==
    line.type = "NewWorkspace" =>
        (has_focused_monitor => Len(focused_monitor.workspaces) < MaxWorkspaces)

\* (mutant) the paused branch handing every message to process_command.
while_paused_unfiltered(line) ==
    \E r \in Results :
        /\ process_command(line, r)
        /\ Handled(line, ResultOf(r), "accept")

\* read_commands while paused: a TogglePause, State or Stop is processed, any
\* other message is ignored, and read_commands returns either way.
while_paused(line) ==
    IF line.type \in HonouredWhilePaused
    THEN \E r \in Results :
             /\ process_command(line, r)
             /\ Handled(line, ResultOf(r), "accept")
    ELSE UNCHANGED dataVars /\ Handled(line, "ignored", "accept")

\* (mutant) the next line read without the notification of this one.
while_running_unnotified(line) ==
    \E r \in Results :
        /\ process_command(line, r)
        /\ Handled(line, ResultOf(r), IF r = Err THEN "accept" ELSE "read")

\* read_commands while not paused: the message is processed; an error
\* returns from read_commands, success leads to the notification.
while_running(line) ==
    \E r \in Results :
        /\ process_command(line, r)
        /\ Handled(line, ResultOf(r), IF r = Err THEN "accept" ELSE "notify")

\* read_commands, one turn of its loop: the next line of the stream is
\* decoded (a line that is no message returns the error), then handled as
\* the pause flag says.
read_commands ==
    /\ ~exited
    /\ lpc = "read"
    /\ nread < Len(sent[cur[1]])
    /\ LET line == sent[cur[1]][nread + 1]
       IN  /\ WithinBounds(line)
           /\ IF line.type \notin MessageTypes
              THEN UNCHANGED dataVars /\ Handled(line, "malformed", "accept")
              ELSE IF is_paused
              THEN while_paused(line)
              ELSE while_running(line)

\* read_commands at the end of the stream: Ok(()).
read_commands_eof ==
    /\ ~exited
    /\ UNCHANGED opc
    /\ lpc = "read"
    /\ nread = Len(sent[cur[1]])
    /\ eof[cur[1]]
    /\ lpc' = "accept"
    /\ wm_lock' = "free"
    /\ conn' = [conn EXCEPT ![cur[1]] = "dropped"]
    /\ UNCHANGED <<dataVars, envVars, backlog, sent, eof, cur, nread, clog, last,
                   notifications, saved>>

\* m restricted to the names outside gone.
Without(m, gone) == [j \in DOMAIN m \ gone |-> m[j]]

\* notify_subscribers: the notification is written to every pipe; the
\* subscribers whose pipe is gone are removed; the result is Ok.  The
\* registry remembered with the last line loses the same subscribers.
notify_subscribers ==
    /\ ~exited
    /\ UNCHANGED opc
    /\ lpc = "notify"
    /\ \E stale \in SUBSET (DOMAIN SUBSCRIPTION_PIPES) :
           /\ SUBSCRIPTION_PIPES' = Without(SUBSCRIPTION_PIPES, stale)
           /\ last' = [last EXCEPT !.pipes = Without(@, stale)]
    /\ notifications' = notifications + 1
    /\ clog' = [clog EXCEPT ![Len(clog)].notified = TRUE]
    /\ lpc' = "read"
    /\ UNCHANGED <<modelVars, is_paused, mouse_follows_focus, ffmVars, ruleVars,
                   quicksave_file, komorebic_sock, exitVars, envVars, clientVars,
                   wm_lock, cur, nread, saved>>

\* (mutant) a listener that serves the connections line by line: the next
\* connection is taken up while a stream is still being read.
listener_accept_any ==
    /\ ~exited
    /\ UNCHANGED opc
    /\ lpc \in {"accept", "read"}
    /\ backlog # <<>>
    /\ cur' = <<Head(backlog)>>
    /\ backlog' = Tail(backlog)
    /\ conn' = [conn EXCEPT ![Head(backlog)] = "open"]
    /\ lpc' = IF lpc = "accept" THEN "lock" ELSE "read"
    /\ nread' = 0
    /\ clog' = <<>>
    /\ notifications' = 0
    /\ komorebic_sock' = 0
    /\ UNCHANGED <<modelVars, is_paused, mouse_follows_focus, ffmVars, ruleVars,
                   SUBSCRIPTION_PIPES, quicksave_file, exitVars, envVars, sent, eof,
                   wm_lock, last, saved>>

\* listener.incoming(): the oldest connection is accepted.
listener_accept ==
    /\ ~exited
    /\ UNCHANGED opc
    /\ lpc = "accept"
    /\ backlog # <<>>
    /\ cur' = <<Head(backlog)>>
    /\ backlog' = Tail(backlog)
    /\ conn' = [conn EXCEPT ![Head(backlog)] = "open"]
    /\ lpc' = "lock"
    /\ nread' = 0
    /\ clog' = <<>>
    /\ notifications' = 0
    /\ komorebic_sock' = 0
    /\ UNCHANGED <<modelVars, is_paused, mouse_follows_focus, ffmVars, ruleVars,
                   SUBSCRIPTION_PIPES, quicksave_file, exitVars, envVars, sent, eof,
                   wm_lock, last, saved>>

\* (mutant) the listener entering read_commands without waiting for the mutex.
listener_lock_nowait ==
    /\ ~exited
    /\ UNCHANGED opc
    /\ lpc = "lock"
    /\ wm_lock' = "listener"
    /\ lpc' = "read"
    /\ UNCHANGED <<dataVars, envVars, clientVars, cur, nread, clog, last,
                   notifications, saved>>

\* wm.lock(): the listener takes the main mutex when it is free.
listener_lock ==
    /\ ~exited
    /\ UNCHANGED opc
    /\ lpc = "lock"
    /\ wm_lock = "free"
    /\ wm_lock' = "listener"
    /\ lpc' = "read"
    /\ UNCHANGED <<dataVars, envVars, clientVars, cur, nread, clog, last,
                   notifications, saved>>

\* ------------------------------------------------------------- the clients
\* A client connects to the command socket.  What the listener kept of the
\* client's previous connection is forgotten.
client_connect(c) ==
    /\ ~exited
    /\ UNCHANGED opc
    /\ conn[c] \in {"none", "dropped"}
    /\ conn' = [conn EXCEPT ![c] = "queued"]
    /\ sent' = [sent EXCEPT ![c] = <<>>]
    /\ eof' = [eof EXCEPT ![c] = FALSE]
    /\ backlog' = Append(backlog, c)
    /\ IF cur = <<c>>
       THEN cur' = <<>> /\ nread' = 0 /\ clog' = <<>> /\ notifications' = 0
       ELSE UNCHANGED <<cur, nread, clog, notifications>>
    /\ UNCHANGED <<dataVars, envVars, wm_lock, lpc, last, saved>>

\* A client writes one more line on its connection, at most maxl of them.
client_send(c, line, maxl) ==
    /\ ~exited
    /\ UNCHANGED opc
    /\ conn[c] \in {"queued", "open"}
    /\ ~eof[c]
    /\ Len(sent[c]) < maxl
    /\ sent' = [sent EXCEPT ![c] = Append(@, line)]
    /\ UNCHANGED <<dataVars, envVars, listenerVars, backlog, conn, eof>>

\* A client closes its end of the connection.
client_close(c) ==
    /\ ~exited
    /\ UNCHANGED opc
    /\ conn[c] \in {"queued", "open"}
    /\ ~eof[c]
    /\ eof' = [eof EXCEPT ![c] = TRUE]
    /\ UNCHANGED <<dataVars, envVars, listenerVars, backlog, conn, sent>>

\* ------------------------------------------- the other users of the mutex
\* The OS event thread (or the timer thread) takes the main mutex before it
\* touches the window manager, and releases it when done.
other_lock ==
    /\ ~exited
    /\ opc = "idle"
    /\ wm_lock = "free"
    /\ wm_lock' = "other"
    /\ opc' = "inside"
    /\ UNCHANGED <<dataVars, envVars, clientVars, lpc, cur, nread, clog, last,
                   notifications, saved>>

other_unlock ==
    /\ ~exited
    /\ opc = "inside"
    /\ wm_lock' = "free"
    /\ opc' = "idle"
    /\ UNCHANGED <<dataVars, envVars, clientVars, lpc, cur, nread, clog, last,
                   notifications, saved>>

\* A mouse event under the internal focus-follows-mouse: a raise is pending.
mouse_event ==
    /\ ~exited
    /\ opc = "inside"
    /\ focus_follows_mouse = Komorebi
    /\ has_pending_raise_op' = TRUE
    /\ UNCHANGED <<modelVars, is_paused, mouse_follows_focus, focus_follows_mouse,
                   os_ffm, ruleVars, SUBSCRIPTION_PIPES, quicksave_file,
                   komorebic_sock, exitVars, envVars, clientVars, listenerVars, opc>>

\* A window is managed: it gets a container of its own on the focused
\* workspace, with no resize adjustment.
manage_event ==
    /\ ~exited
    /\ opc = "inside"
    /\ has_focused_workspace
    /\ focused_workspace.containers < MaxContainers
    /\ monitors' = with_focused_workspace(
           [focused_workspace EXCEPT
               !.containers = @ + 1,
               !.focused_container_idx = focused_workspace.containers,
               !.resize_dimensions = Append(@, NoRect)])
    /\ saved' = <<>>
    /\ UNCHANGED <<focused_monitor_idx, nonModelData, envVars, clientVars,
                   wm_lock, lpc, cur, nread, clog, last, notifications, opc>>

\* The user moves the cursor: over monitor m, or off every monitor.
move_cursor(pos) ==
    /\ ~exited
    /\ UNCHANGED opc
    /\ pos # cursor_pos
    /\ IF pos = <<>> THEN TRUE ELSE pos[1] < Len(monitors)
    /\ cursor_pos' = pos
    /\ UNCHANGED <<dataVars, CUSTOM_FFM, clientVars, listenerVars>>

CursorPositions == {<<>>} \cup {<<m>> : m \in 0..1}

\* ------------------------------------------------------------------- Init
\* The state after startup: the monitors the OS enumerates, one workspace
\* each, nothing paused, no rules, no subscribers, no client.
InitWith(counts, customs, osffms) ==
    /\ monitors \in {[i \in 1..k |-> NewMonitor] : k \in counts}
    /\ focused_monitor_idx = 0
    /\ is_paused = FALSE
    /\ mouse_follows_focus = TRUE
    /\ focus_follows_mouse = None
    /\ has_pending_raise_op = FALSE
    /\ MANAGE_IDENTIFIERS = <<>>
    /\ FLOAT_IDENTIFIERS = <<>>
    /\ BORDER_OVERFLOW_IDENTIFIERS = <<>>
    /\ TRAY_AND_MULTI_WINDOW_IDENTIFIERS = <<>>
    /\ WORKSPACE_RULES = EmptyMap
    /\ SUBSCRIPTION_PIPES = EmptyMap
    /\ CUSTOM_FFM \in customs
    /\ os_ffm \in osffms
    /\ cursor_pos = IF monitors = <<>> THEN <<>> ELSE <<0>>
    /\ quicksave_file = <<>>
    /\ komorebic_sock = 0
    /\ exited = FALSE
    /\ exit_code = <<>>
    /\ windows_restored = FALSE
    /\ wm_lock = "free"
    /\ lpc = "accept"
    /\ opc = "idle"
    /\ cur = <<>>
    /\ backlog = <<>>
    /\ conn = [c \in Clients |-> "none"]
    /\ sent = [c \in Clients |-> <<>>]
    /\ eof = [c \in Clients |-> FALSE]
    /\ nread = 0
    /\ clog = <<>>
    /\ last = NoLine
    /\ notifications = 0
    /\ saved = <<>>

\* ------------------------------------------------------ focus (monitors)
FocusLines ==
    {MsgIdx("FocusMonitorNumber", i) : i \in 0..2}
    \cup {MsgIdx("FocusWorkspaceNumber", i) : i \in {0, 1, MaxWorkspaces - 1}}
    \cup {MsgDir("CycleFocusMonitor", d) : d \in CycleDirection}
    \cup {MsgDir("CycleFocusWorkspace", d) : d \in CycleDirection}
    \cup {MsgEnsure(m, n) : m \in 0..2, n \in {0, MaxWorkspaces}}
    \cup {Message("NewWorkspace")}

InitFocus == InitWith(MonitorCounts, {TRUE}, {FALSE})
NextFocus ==
    \/ client_connect("c1")
    \/ \E line \in FocusLines : client_send("c1", line, 1)
    \/ client_close("c1")
    \/ listener_accept
    \/ listener_lock
    \/ read_commands
    \/ read_commands_eof
    \/ notify_subscribers
    \/ \E pos \in CursorPositions : move_cursor(pos)
SpecFocus == InitFocus /\ [][NextFocus]_vars


\* C1: after any sequence of commands, handled with success or not, the
\* focused monitor index is below the number of monitors, every monitor has
\* at least one workspace and every monitor's focused workspace index is
\* below the number of its workspaces.
C1_FocusIndicesInRange ==
    /\ Len(monitors) >= 1
    /\ focused_monitor_idx < Len(monitors)
    /\ \A m \in 1..Len(monitors) :
           /\ Len(monitors[m].workspaces) >= 1
           /\ monitors[m].focused_workspace_idx < Len(monitors[m].workspaces)

\* A FocusWorkspaceNumber beyond the workspaces of the monitor was handled.
C1_Witness ==
    /\ clog # <<>>
    /\ clog[1].msg = MsgIdx("FocusWorkspaceNumber", MaxWorkspaces - 1)
    /\ clog[1].result = "ok"
    /\ focused_monitor_idx = 1
    /\ Len(focused_monitor.workspaces) = MaxWorkspaces
    /\ focused_monitor.focused_workspace_idx = MaxWorkspaces - 1


\* ------------------------------------------------------------ rule tables
RuleLines ==
    {MsgId("ManageRule", id) : id \in Identifiers}
    \cup {MsgId("FloatRule", id) : id \in Identifiers}
    \cup {MsgId("IdentifyBorderOverflow", "foo.exe"),
          MsgId("IdentifyTrayApplication", "bar.exe")}

InitRules == InitWith({1}, {TRUE}, {FALSE})
NextRules ==
    \/ client_connect("c1")
    \/ \E line \in RuleLines : client_send("c1", line, 2)
    \/ client_close("c1")
    \/ listener_accept
    \/ listener_lock
    \/ read_commands
    \/ read_commands_eof
    \/ notify_subscribers
SpecRules == InitRules /\ [][NextRules]_vars

NoDuplicates(v) == \A i, j \in 1..Len(v) : v[i] = v[j] => i = j
IsPrefix(v, w) == Len(v) <= Len(w) /\ \A i \in 1..Len(v) : v[i] = w[i]

\* The step handles a line of the given type with success.
HandlesOk(type) ==
    /\ Len(clog') = Len(clog) + 1
    /\ clog'[Len(clog')].msg.type = type
    /\ clog'[Len(clog')].result = "ok"
HandledId == clog'[Len(clog')].msg.id

\* What a rule command does to its table: the identifier is in the table
\* afterwards, the entries that were there keep their places, and a table
\* that held the identifier already is unchanged.
SetInsert(type, v, w) ==
    HandlesOk(type) =>
        /\ Contains(w, HandledId)
        /\ IsPrefix(v, w)
        /\ Contains(v, HandledId) => w = v

\* C2: no rule table ever holds an identifier twice, and a rule command
\* whose identifier is in its table already (the same command issued again)
\* leaves the table as it is, entries and order.
C2_RuleTablesAreSets ==
    /\ [](/\ NoDuplicates(MANAGE_IDENTIFIERS)
          /\ NoDuplicates(FLOAT_IDENTIFIERS)
          /\ NoDuplicates(BORDER_OVERFLOW_IDENTIFIERS)
          /\ NoDuplicates(TRAY_AND_MULTI_WINDOW_IDENTIFIERS))
    /\ [][/\ SetInsert("ManageRule", MANAGE_IDENTIFIERS, MANAGE_IDENTIFIERS')
          /\ SetInsert("FloatRule", FLOAT_IDENTIFIERS, FLOAT_IDENTIFIERS')
          /\ SetInsert("IdentifyBorderOverflow", BORDER_OVERFLOW_IDENTIFIERS,
                       BORDER_OVERFLOW_IDENTIFIERS')
          /\ SetInsert("IdentifyTrayApplication", TRAY_AND_MULTI_WINDOW_IDENTIFIERS,
                       TRAY_AND_MULTI_WINDOW_IDENTIFIERS')]_vars

\* ManageRule for foo.exe was handled twice on one stream, after bar.exe had
\* been added: the table holds each once, in the order of their arrival.
C2_Witness ==
    /\ Len(clog) = 2
    /\ clog[1].msg = MsgId("ManageRule", "foo.exe") /\ clog[1].result = "ok"
    /\ clog[2].msg = MsgId("ManageRule", "foo.exe") /\ clog[2].result = "ok"
    /\ MANAGE_IDENTIFIERS = <<"bar.exe", "foo.exe">>

\* ------------------------------------------------------ focus follows mouse
FfmLines ==
    {MsgFfm("FocusFollowsMouse", impl, enable) :
        impl \in FocusFollowsMouseImplementation, enable \in BOOLEAN}
    \cup {MsgFfm("ToggleFocusFollowsMouse", impl, FALSE) :
        impl \in FocusFollowsMouseImplementation}

InitFfm == InitWith({1}, BOOLEAN, BOOLEAN)
NextFfm ==
    \/ client_connect("c1")
    \/ \E line \in FfmLines : client_send("c1", line, 2)
    \/ client_close("c1")
    \/ listener_accept
    \/ listener_lock
    \/ read_commands
    \/ read_commands_eof
    \/ notify_subscribers
    \/ other_lock
    \/ other_unlock
    \/ mouse_event
SpecFfm == InitFfm /\ [][NextFfm]_vars

\* C3: while the OS's focus-follows-mouse is off the manager's is None or
\* the internal one, and while it is on the manager's is None or the OS's.
C3_FfmExclusive ==
    /\ ~os_ffm => focus_follows_mouse \in {None, Komorebi}
    /\ os_ffm => focus_follows_mouse \in {None, Windows}

\* With the internal implementation on, a request to enable the OS's was
\* handled: the internal one is still on and the OS's still off.
C3_Witness ==
    /\ Len(clog) = 2
    /\ clog[1].msg = MsgFfm("ToggleFocusFollowsMouse", Komorebi, FALSE)
    /\ clog[2].msg = MsgFfm("FocusFollowsMouse", Windows, TRUE)
    /\ clog[2].result = "ok"
    /\ focus_follows_mouse = Komorebi
    /\ ~os_ffm

\* ------------------------------------------------------------------ mutex
InitMutex == InitWith({1}, {TRUE}, {FALSE})
NextMutex ==
    \/ \E c \in Clients : client_connect(c)
    \/ \E c \in Clients : client_send(c, Message("TogglePause"), 2)
    \/ \E c \in Clients : client_close(c)
    \/ listener_accept
    \/ listener_lock
    \/ read_commands
    \/ read_commands_eof
    \/ notify_subscribers
    \/ other_lock
    \/ other_unlock
SpecMutex == InitMutex /\ [][NextMutex]_vars

\* The listener is inside read_commands (and so inside process_command or
\* the broadcast); the other thread is inside its use of the manager.
ListenerInside == lpc \in {"read", "notify"}
OtherInside == opc = "inside"

\* C4: the listener and the other thread are never inside the window
\* manager at once, and whoever is inside holds the main mutex.
C4_OneThreadInside ==
    /\ ~(ListenerInside /\ OtherInside)
    /\ ListenerInside => wm_lock = "listener"
    /\ OtherInside => wm_lock = "other"

\* The other thread is inside while the listener, holding a client's
\* stream with a line to read, waits for the mutex.
C4_Witness ==
    /\ OtherInside
    /\ lpc = "lock"
    /\ cur # <<>>
    /\ Len(sent[cur[1]]) > 0


\* ------------------------------------------------------------------ pause
\* Lines of every kind the paused branch may meet.
PausedLines ==
    {Message("TogglePause"), Message("State"), Message("Stop"),
     MsgId("Query", "FocusedMonitorIndex"),
     MsgIdx("FocusWorkspaceNumber", MaxWorkspaces - 1),
     MsgId("ManageRule", "foo.exe"),
     MsgFfm("ToggleFocusFollowsMouse", Windows, FALSE),
     MsgId("AddSubscriber", "sub1")}

InitPaused == InitWith({1}, {TRUE}, {FALSE})
NextPaused ==
    \/ client_connect("c1")
    \/ \E line \in PausedLines : client_send("c1", line, 2)
    \/ client_close("c1")
    \/ listener_accept
    \/ listener_lock
    \/ read_commands
    \/ read_commands_eof
    \/ notify_subscribers
SpecPaused == InitPaused /\ [][NextPaused]_vars

\* The step reads a line (whatever becomes of it); the line read.
ReadsLine == Len(clog') = Len(clog) + 1
LineRead == clog'[Len(clog')]

\* C5: a line read while paused that is no TogglePause, State or Stop is
\* ignored (process_command is not called) and changes neither the model of
\* monitors and workspaces, nor is_paused, nor the focus-follows-mouse
\* fields, nor a rule table, nor the subscribers; no response is written and
\* nothing is broadcast.
C5_IgnoredWhilePaused ==
    [][(/\ ReadsLine
        /\ is_paused
        /\ LineRead.msg.type \in MessageTypes \ HonouredWhilePaused)
       => /\ LineRead.result = "ignored"
          /\ UNCHANGED <<modelVars, is_paused, mouse_follows_focus, ffmVars,
                         ruleVars, SUBSCRIPTION_PIPES, quicksave_file,
                         komorebic_sock, notifications, exitVars>>]_vars

\* Paused, with a FocusWorkspaceNumber read and ignored: the monitor still
\* has its one workspace.
C5_Witness ==
    /\ is_paused
    /\ Len(clog) = 2
    /\ clog[2].msg = MsgIdx("FocusWorkspaceNumber", MaxWorkspaces - 1)
    /\ clog[2].result = "ignored"
    /\ Len(monitors[1].workspaces) = 1

\* ---------------------------------------------------- streams and pause
StreamLines ==
    {Message("TogglePause"), Message("State"),
     MsgIdx("FocusWorkspaceNumber", MaxWorkspaces - 1)}

InitStream == InitWith({1}, {TRUE}, {FALSE})
NextStream ==
    \/ client_connect("c1")
    \/ \E line \in StreamLines : client_send("c1", line, MaxLines)
    \/ client_close("c1")
    \/ listener_accept
    \/ listener_lock
    \/ read_commands
    \/ read_commands_eof
    \/ notify_subscribers
SpecStream == InitStream /\ [][NextStream]_vars

\* The stream of the scenario: pause, a command to be dropped, State, resume.
PauseScenario ==
    <<Message("TogglePause"), MsgIdx("FocusWorkspaceNumber", MaxWorkspaces - 1),
      Message("State"), Message("TogglePause")>>

\* C6: a client that sends TogglePause, FocusWorkspaceNumber(3), State and
\* TogglePause on one stream to a manager that is not paused, and closes:
\* once the listener is done with the stream, the State and the last
\* TogglePause have been processed (not dropped), the response of a State
\* that succeeded has been written and the manager is not paused.
C6_HonouredWhereverInStream ==
    \A c \in Clients :
        (/\ cur = <<c>>
         /\ conn[c] = "dropped"
         /\ eof[c]
         /\ sent[c] = PauseScenario
         /\ ~clog[1].paused)
        => /\ Len(clog) >= 3
           /\ clog[2].result = "ignored"
           /\ clog[3].result \in {"ok", "err"}
           /\ clog[3].result = "ok" =>
                  /\ komorebic_sock >= 1
                  /\ Len(clog) = 4
                  /\ clog[4].result = "ok"
                  /\ ~is_paused

\* The stream of two TogglePause lines.
TwoToggles == <<Message("TogglePause"), Message("TogglePause")>>

\* C7: a client that sends two TogglePause lines on one stream and closes:
\* once the listener is done with the stream, is_paused is what it was when
\* the first line was read, whether the manager was paused then or not.
C7_TwoTogglesRestore ==
    \A c \in Clients :
        (/\ cur = <<c>>
         /\ conn[c] = "dropped"
         /\ eof[c]
         /\ sent[c] = TwoToggles
         /\ Len(clog) >= 1)
        => is_paused = clog[1].paused

\* What does hold of TogglePause: every TogglePause the listener reads is
\* processed and flips is_paused, and the second of two TogglePause lines
\* read one after the other brings is_paused back to what it was before the
\* first.  (From a paused manager the second is read only when it comes on
\* a new connection.)
TogglePauseFlips ==
    [][(ReadsLine /\ LineRead.msg.type = "TogglePause")
       => /\ LineRead.result = "ok"
          /\ is_paused' = ~is_paused
          /\ last.msg.type = "TogglePause" => is_paused' = last.paused]_vars

\* Two TogglePause lines in a row were read, the first while paused (so the
\* second had to come on a new connection): the manager is paused again.
TogglePauseFlipsWitness ==
    /\ last.msg.type = "TogglePause"
    /\ ~last.paused
    /\ last.before.type = "TogglePause"
    /\ last.before.paused
    /\ is_paused

\* C10: the lines of a stream are handled in the order of the stream, none
\* skipped, and when a line is read every earlier line of the stream that
\* was processed has had its notification broadcast.
C10_StreamOrder ==
    /\ cur # <<>> =>
           /\ Len(clog) = nread
           /\ nread <= Len(sent[cur[1]])
           /\ \A i \in 1..Len(clog) : clog[i].msg = sent[cur[1]][i]
    /\ \A i \in 1..Len(clog) :
           (i < Len(clog) /\ clog[i].result \in {"ok", "err"}) => clog[i].notified
    /\ notifications = Cardinality({i \in 1..Len(clog) : clog[i].notified})

\* Two lines of a stream were processed: the first has been notified, the
\* notification of the second is still to come.
C10_Witness ==
    /\ lpc = "notify"
    /\ Len(clog) = 2
    /\ clog[1].msg = Message("State") /\ clog[1].notified
    /\ clog[2].msg = MsgIdx("FocusWorkspaceNumber", MaxWorkspaces - 1)
    /\ clog[2].result = "ok" /\ ~clog[2].notified

\* ---------------------------------------------------- quicksave, quickload
QuickLines ==
    {Message("QuickSave"), Message("QuickLoad"), MsgResize("Left", TRUE)}

InitQuick == InitWith({1}, {TRUE}, {FALSE})
NextQuick ==
    \/ client_connect("c1")
    \/ \E line \in QuickLines : client_send("c1", line, 3)
    \/ client_close("c1")
    \/ listener_accept
    \/ listener_lock
    \/ read_commands
    \/ read_commands_eof
    \/ notify_subscribers
    \/ other_lock
    \/ other_unlock
    \/ manage_event
SpecQuick == InitQuick /\ [][NextQuick]_vars

\* C8: a QuickLoad that succeeds after a QuickSave that succeeded, with
\* nothing but ResizeWindow commands processed in between (so the file was
\* not written again and the focused workspace is the same), leaves the
\* focused workspace's resize deltas equal to what they were at the
\* QuickSave.
C8_QuickLoadRestores ==
    [][(/\ ReadsLine
        /\ LineRead.msg.type = "QuickLoad"
        /\ LineRead.result = "ok"
        /\ saved # <<>>)
       => focused_workspace'.resize_dimensions = saved[1].resize]_vars

\* A QuickLoad has just restored deltas, one of them set and one not, that
\* a resize had changed after the QuickSave.
C8_Witness ==
    /\ lpc = "notify"
    /\ clog[Len(clog)].msg.type = "QuickLoad"
    /\ clog[Len(clog)].result = "ok"
    /\ saved # <<>>
    /\ saved[1].changed
    /\ \E i, j \in 1..Len(saved[1].resize) :
           saved[1].resize[i].some /\ ~saved[1].resize[j].some
    /\ focused_workspace.resize_dimensions = saved[1].resize

\* ------------------------------------------------------------ subscribers
SubscriberLines ==
    {MsgId(t, x) : t \in {"AddSubscriber", "RemoveSubscriber"}, x \in SubscriberNames}

InitSubs == InitWith({1}, {TRUE}, {FALSE})
NextSubs ==
    \/ client_connect("c1")
    \/ \E line \in SubscriberLines : client_send("c1", line, 2)
    \/ client_close("c1")
    \/ listener_accept
    \/ listener_lock
    \/ read_commands
    \/ read_commands_eof
    \/ notify_subscribers
SpecSubs == InitSubs /\ [][NextSubs]_vars

\* A RemoveSubscriber(x) is read right after an AddSubscriber(x) that
\* succeeded.
RemovesJustAdded ==
    /\ ReadsLine
    /\ LineRead.msg.type = "RemoveSubscriber"
    /\ LineRead.result = "ok"
    /\ last.msg.type = "AddSubscriber"
    /\ last.result = "ok"
    /\ last.msg.id = LineRead.msg.id

\* C9 as stated: whatever the registry held before AddSubscriber(x), x
\* included, after the RemoveSubscriber(x) that follows it the registry is
\* what it was before the AddSubscriber (less the subscribers the broadcast
\* in between dropped for a dead pipe).
C9_AddRemoveKeepsRegistry ==
    [][RemovesJustAdded => SUBSCRIPTION_PIPES' = last.pipes]_vars

\* C9 amended: the same for a registry that did not hold x before the
\* AddSubscriber; a registry that held x is left without x, and otherwise
\* as it was.
C9_AddRemoveOfNewName ==
    [][RemovesJustAdded
       => /\ LineRead.msg.id \notin DOMAIN last.pipes
              => SUBSCRIPTION_PIPES' = last.pipes
          /\ SUBSCRIPTION_PIPES' = Without(last.pipes, {LineRead.msg.id})]_vars

\* AddSubscriber of a new name and its RemoveSubscriber have been processed
\* with another subscriber registered throughout.
C9_Witness ==
    /\ lpc = "notify"
    /\ last.msg.type = "RemoveSubscriber"
    /\ last.result = "ok"
    /\ last.before.type = "AddSubscriber"
    /\ last.before.id = last.msg.id
    /\ last.msg.id \notin DOMAIN last.before.pipes
    /\ DOMAIN last.before.pipes # {}
    /\ SUBSCRIPTION_PIPES = last.before.pipes

\* ------------------------------------------------------------ two clients
ClientLines == {Message("State"), Message("ToggleMouseFollowsFocus")}

InitClients == InitWith({1}, {TRUE}, {FALSE})
NextClients ==
    \/ \E c \in Clients : client_connect(c)
    \/ \E c \in Clients, line \in ClientLines : client_send(c, line, 2)
    \/ \E c \in Clients : client_close(c)
    \/ listener_accept
    \/ listener_lock
    \/ read_commands
    \/ read_commands_eof
    \/ notify_subscribers
\* The listener thread keeps running; a client may stall at any point.
ListenerFairness ==
    /\ WF_vars(listener_accept)
    /\ WF_vars(listener_lock)
    /\ WF_vars(read_commands)
    /\ WF_vars(read_commands_eof)
    /\ WF_vars(notify_subscribers)
SpecClients == InitClients /\ [][NextClients]_vars /\ ListenerFairness

\* Client c waits in the backlog with a line sent, while the listener holds
\* the open stream of another client.
WaitsBehind(c) ==
    /\ conn[c] = "queued"
    /\ Len(sent[c]) >= 1
    /\ cur # <<>>
    /\ cur # <<c>>
    /\ conn[cur[1]] = "open"

Introspection == {"State", "Query"}

\* The notification of the line read last is still to be broadcast.
NotificationPending(i) == i = Len(clog) /\ lpc = "notify"

\* C12: of the lines read while the manager is not paused, exactly those
\* that were processed successfully and are neither State nor Query have a
\* notification broadcast for them, one each.
C12_NotifiedIffSuccessfulChange ==
    /\ \A i \in 1..Len(clog) :
           (~clog[i].paused /\ ~exited) =>
               /\ clog[i].notified =>
                      /\ clog[i].result = "ok"
                      /\ clog[i].msg.type \notin Introspection
               /\ (/\ clog[i].result = "ok"
                   /\ clog[i].msg.type \notin Introspection
                   /\ ~NotificationPending(i)) => clog[i].notified
    /\ notifications = Cardinality({i \in 1..Len(clog) : clog[i].notified})

\* C13: whenever a notification is broadcast the manager is not paused.
C13_NoBroadcastWhilePaused ==
    [][notifications' = notifications + 1 => ~is_paused]_vars

\* ------------------------------------------------- errors on a stream
\* With one monitor, FocusMonitorNumber(1) is an error of process_command.
ErrorLines ==
    {MalformedLine, MsgIdx("FocusMonitorNumber", 1), MsgIdx("FocusMonitorNumber", 0),
     Message("ToggleMouseFollowsFocus")}

InitErrors == InitWith({1}, {TRUE}, {FALSE})
NextErrors ==
    \/ client_connect("c1")
    \/ \E line \in ErrorLines : client_send("c1", line, 3)
    \/ client_close("c1")
    \/ listener_accept
    \/ listener_lock
    \/ read_commands
    \/ read_commands_eof
    \/ notify_subscribers
SpecErrors == InitErrors /\ [][NextErrors]_vars

\* The listener is done with the connection of client c, whose lines are in
\* sent[c] and whose fate is in clog.
StreamOver(c) == cur = <<c>> /\ conn[c] = "dropped"

\* C14: a line that is no command is skipped and the connection goes on:
\* when the listener is done with a stream, the line after each malformed
\* line of the stream has been read too.
C14_MalformedLineSkipped ==
    \A c \in Clients :
        StreamOver(c) =>
            \A i \in 1..Len(clog) :
                (clog[i].result = "malformed" /\ i < Len(sent[c])) => Len(clog) > i

\* C15: after a line for which process_command returned an error the
\* listener goes on with the next line: when the listener is done with a
\* stream, the line after each line that failed (read while not paused) has
\* been read too.
C15_ErrorThenNextLine ==
    \A c \in Clients :
        StreamOver(c) =>
            \A i \in 1..Len(clog) :
                (/\ clog[i].result = "err"
                 /\ ~clog[i].paused
                 /\ i < Len(sent[c])) => Len(clog) > i

\* ---------------------------------------------------- precondition failures
\* The displays may all be gone: the manager starts with none, one or two.
PrecondLines ==
    {MsgWsRule("foo.exe", 0, 0), MsgIdx("FocusMonitorNumber", 1),
     MsgDir("CycleFocusMonitor", Next_), MsgDir("CycleFocusWorkspace", Next_),
     MsgIdx("FocusWorkspaceNumber", 1)}

InitPrecond == InitWith({0, 1, 2}, {TRUE}, {FALSE})
NextPrecond ==
    \/ client_connect("c1")
    \/ \E line \in PrecondLines : client_send("c1", line, 1)
    \/ client_close("c1")
    \/ listener_accept
    \/ listener_lock
    \/ read_commands
    \/ read_commands_eof
    \/ notify_subscribers
    \/ \E pos \in CursorPositions : move_cursor(pos)
SpecPrecond == InitPrecond /\ [][NextPrecond]_vars

\* The command of the line cannot succeed in the present state for want of
\* what it works on: no monitor at all, no monitor of that index, no monitor
\* under the cursor, no focused monitor for the enforcement pass.
PreconditionFails(line) ==
    CASE line.type = "WorkspaceRule" -> ~has_focused_monitor
      [] line.type = "CycleFocusMonitor" -> monitors = <<>>
      [] line.type = "FocusMonitorNumber" -> ~focus_monitor_ok(line.idx)
      [] line.type \in {"CycleFocusWorkspace", "FocusWorkspaceNumber"} ->
             IF cursor_pos = <<>> THEN TRUE ELSE ~focus_monitor_ok(cursor_pos[1])
      [] OTHER -> FALSE

\* C16: a command that fails for a precondition leaves the monitors, the
\* focused monitor index, the rule tables and the subscribers as they were.
C16_FailureChangesNothing ==
    [][(/\ ReadsLine
        /\ LineRead.result = "err"
        /\ PreconditionFails(LineRead.msg))
       => UNCHANGED <<modelVars, ruleVars, SUBSCRIPTION_PIPES>>]_vars

\* ------------------------------------- focus follows mouse: conflicts, flag
FfmTypes == {"FocusFollowsMouse", "ToggleFocusFollowsMouse"}

\* The line asks to enable (or toggle) one implementation while the other
\* is active: the internal one while the OS's is on at the OS level, or the
\* OS's while the manager runs the internal one.
FfmConflict(line) ==
    /\ line.type \in FfmTypes
    /\ line.type = "FocusFollowsMouse" => line.enable
    /\ \/ line.impl = Komorebi /\ os_ffm
       \/ line.impl = Windows /\ focus_follows_mouse = Komorebi

\* C17 as stated: such a request changes nothing and returns Ok.
C17_ConflictRefused ==
    [][(ReadsLine /\ FfmConflict(LineRead.msg))
       => /\ UNCHANGED ffmVars
          /\ LineRead.result = "ok"]_vars

\* C17 amended: with CUSTOM_FFM set, such a request changes nothing; the
\* request for the OS's implementation returns Ok, the request for the
\* internal one returns Ok unless the query of the OS setting fails.
C17_ConflictRefusedWithFlag ==
    [][(ReadsLine /\ FfmConflict(LineRead.msg) /\ CUSTOM_FFM)
       => /\ UNCHANGED ffmVars
          /\ LineRead.msg.impl = Windows => LineRead.result = "ok"]_vars

\* With the flag set and the OS's implementation on from outside, a request
\* to enable the internal one was handled: nothing changed.
C17_Witness ==
    /\ CUSTOM_FFM
    /\ Len(clog) = 1
    /\ clog[1].msg = MsgFfm("FocusFollowsMouse", Komorebi, TRUE)
    /\ clog[1].result = "ok"
    /\ os_ffm
    /\ focus_follows_mouse = None
    /\ ~has_pending_raise_op

\* The same command asking for the other implementation.
OtherImplementation(line) ==
    [line EXCEPT !.impl = IF @ = Komorebi THEN Windows ELSE Komorebi]

\* C18: without CUSTOM_FFM a focus-follows-mouse command does to the state
\* (and returns) what the same command with the other implementation named
\* could do, so that Internal and OSNative are one request; and the
\* manager never runs the internal implementation.
C18_InternalCoerced ==
    /\ [](~CUSTOM_FFM => focus_follows_mouse # Komorebi)
    /\ [][(ReadsLine /\ ~CUSTOM_FFM /\ LineRead.msg.type \in FfmTypes)
          => \E r \in Results :
                 /\ ResultOf(r) = LineRead.result
                 /\ IF LineRead.msg.type = "FocusFollowsMouse"
                    THEN FocusFollowsMouse(OtherImplementation(LineRead.msg), r)
                    ELSE ToggleFocusFollowsMouse(OtherImplementation(LineRead.msg), r)]_vars

\* Without the flag, a request to enable the internal implementation has
\* turned the OS's on.
C18_Witness ==
    /\ ~CUSTOM_FFM
    /\ Len(clog) = 1
    /\ clog[1].msg = MsgFfm("FocusFollowsMouse", Komorebi, TRUE)
    /\ clog[1].result = "ok"
    /\ clog[1].notified
    /\ os_ffm
    /\ focus_follows_mouse = Windows

\* -------------------------------------------------------------------- stop
StopLines ==
    {Message("Stop"), Message("TogglePause"), MsgIdx("FocusWorkspaceNumber", 1)}

InitStop == InitWith({1}, {TRUE}, {FALSE})
NextStop ==
    \/ client_connect("c1")
    \/ \E line \in StopLines : client_send("c1", line, 2)
    \/ client_close("c1")
    \/ listener_accept
    \/ listener_lock
    \/ read_commands
    \/ read_commands_eof
    \/ notify_subscribers
    \/ other_lock
    \/ other_unlock
    \/ manage_event
SpecStop == InitStop /\ [][NextStop]_vars

\* The windows of a workspace are hidden while another workspace of its
\* monitor is focused, until restore_all_windows shows them.
HasWindowsOffFocus ==
    \E m \in 1..Len(monitors) :
        \E w \in 1..Len(monitors[m].workspaces) :
            /\ w # monitors[m].focused_workspace_idx + 1
            /\ monitors[m].workspaces[w].containers > 0
SomeWindowHidden == HasWindowsOffFocus /\ ~windows_restored

\* C19: every Stop line the listener reads, paused or not, ends the process;
\* once the process has exited its code is 0, no window is hidden, the Stop
\* is the last line read and has no notification, and nothing is processed
\* or broadcast any more.
C19_StopTerminates ==
    /\ [](exited =>
             /\ exit_code = <<0>>
             /\ ~SomeWindowHidden
             /\ clog[Len(clog)].msg.type = "Stop"
             /\ ~clog[Len(clog)].notified)
    /\ [][(ReadsLine /\ LineRead.msg.type = "Stop")
          => (exited' /\ LineRead.result = "ok")]_vars
    /\ [][exited => UNCHANGED <<dataVars, nread, clog, notifications>>]_vars

\* A Stop read while paused has ended the process, with windows on a
\* workspace that is not focused shown again.
C19_Witness ==
    /\ exited
    /\ clog[Len(clog)].msg.type = "Stop"
    /\ clog[Len(clog)].paused
    /\ HasWindowsOffFocus
    /\ windows_restored

\* ------------------------------------------------- cycling the workspaces

\* A CycleFocusWorkspace line that process_command handled without error.
CyclesWorkspace(dir) ==
    /\ ReadsLine
    /\ LineRead.msg = MsgDir("CycleFocusWorkspace", dir)
    /\ LineRead.result = "ok"

\* The line before was a successful CycleFocusWorkspace Next read with the
\* cursor on the monitor it is on now.
AfterNextUnderSameCursor ==
    /\ last.msg = MsgDir("CycleFocusWorkspace", Next_)
    /\ last.focus # <<>>
    /\ cursor_pos # <<>>
    /\ last.focus[1] = cursor_pos[1]

\* C20: CycleFocusWorkspace first focuses the monitor under the cursor and
\* then moves the focus of that monitor to the workspace next_idx gives: one
\* further for Next and one back for Previous, wrapping around at the ends
\* of the n workspaces of the monitor. A successful Next followed by a
\* successful Previous with the cursor on the same monitor leaves that
\* monitor focused on the workspace it was focused on before the Next.
C20_CycleWrapsAndReturns ==
    /\ [][\A dir \in CycleDirection : CyclesWorkspace(dir) => FocusUnderCursor # <<>>]_vars
    /\ [][\A dir \in CycleDirection :
             (CyclesWorkspace(dir) /\ FocusUnderCursor # <<>>) =>
                 LET m == cursor_pos[1]
                     i == monitors[m + 1].focused_workspace_idx
                     n == Len(monitors[m + 1].workspaces)
                 IN  /\ focused_monitor_idx' = m
                     /\ Len(monitors'[m + 1].workspaces) = n
                     /\ monitors'[m + 1].focused_workspace_idx =
                            IF dir = Next_ THEN (i + 1) % n ELSE (i + n - 1) % n
                     /\ \A o \in 1..Len(monitors) :
                            o # m + 1 => monitors'[o] = monitors[o]]_vars
    /\ [][(CyclesWorkspace(Previous) /\ AfterNextUnderSameCursor) =>
             /\ focused_monitor_idx' = last.focus[1]
             /\ monitors'[last.focus[1] + 1].focused_workspace_idx = last.focus[2]]_vars

\* Two monitors of two workspaces each, the cursor on monitor 0 whose focus
\* was on workspace 1: Next wrapped it to 0 and Previous wrapped it back to 1.
C20_Witness ==
    /\ Len(monitors) = 2
    /\ \A m \in 1..2 : Len(monitors[m].workspaces) = 2
    /\ cursor_pos = <<0>>
    /\ last.msg = MsgDir("CycleFocusWorkspace", Previous)
    /\ last.focus = <<0, 0>>
    /\ last.before.type = "CycleFocusWorkspace"
    /\ last.before.dir = Next_
    /\ focused_monitor_idx = 0
    /\ monitors[1].focused_workspace_idx = 1

\* ------------------------------------------- the main mutex between lines

\* The listener has read every line its client has sent so far and waits in
\* stream.lines() for the next one, the client's end still open.
WaitsForNextLine ==
    /\ lpc = "read"
    /\ cur # <<>>
    /\ nread >= 1
    /\ IF cur = <<>> THEN FALSE
       ELSE nread = Len(sent[cur[1]]) /\ ~eof[cur[1]]

\* C21: the listener takes the main mutex for one line at a time, so while it
\* waits for the next line of a client, after a line of that client has been
\* processed, it does not hold the main mutex (and another thread can take
\* it), even if the client keeps its connection open without sending.
C21_MutexFreeBetweenLines == WaitsForNextLine => wm_lock # "listener"

\* ------------------------------- disabling the internal focus follows mouse

\* C22: whenever a command line turns the internal implementation off
\* (focus_follows_mouse goes from Komorebi to None), has_pending_raise_op is
\* false afterwards, for FocusFollowsMouse(Komorebi, false) and for
\* ToggleFocusFollowsMouse(Komorebi) alike.
C22_DisableClearsPendingRaise ==
    [][(ReadsLine /\ focus_follows_mouse = Komorebi /\ focus_follows_mouse' = None)
          => ~has_pending_raise_op']_vars

\* The same for FocusFollowsMouse lines only.
FocusFollowsMouseOffClears ==
    [][(/\ ReadsLine
        /\ LineRead.msg.type = "FocusFollowsMouse"
        /\ focus_follows_mouse = Komorebi
        /\ focus_follows_mouse' = None) => ~has_pending_raise_op']_vars

\* ------------------------------------------- the order of the inner mutexes

RuleMutexes ==
    {"WORKSPACE_RULES", "MANAGE_IDENTIFIERS", "FLOAT_IDENTIFIERS",
     "BORDER_OVERFLOW_IDENTIFIERS", "TRAY_AND_MULTI_WINDOW_IDENTIFIERS"}
SubscriberMutex == "SUBSCRIPTION_PIPES"
LockEv(mutex) == [op |-> "lock", what |-> mutex]
UnlockEv(mutex) == [op |-> "unlock", what |-> mutex]
CallEv(fn) == [op |-> "call", what |-> fn]

\* (mutant) the guard of WORKSPACE_RULES living to the end of the arm, over
\* the enforcement pass.
LockEvents_nested(message) ==
    CASE message.type = "WorkspaceRule" ->
             <<LockEv("WORKSPACE_RULES"), CallEv("enforce_workspace_rules"),
               UnlockEv("WORKSPACE_RULES")>>
      [] message.type \in {"AddSubscriber", "RemoveSubscriber"} ->
             <<LockEv(SubscriberMutex), UnlockEv(SubscriberMutex)>>
      [] OTHER -> <<>>

\* What an arm of process_command does to the inner mutexes, in order: a
\* guard bound with `let` is dropped where its block ends (the inner block of
\* WorkspaceRule, the arm otherwise), also when `?` leaves the arm early.
LockEvents(message) ==
    CASE message.type = "WorkspaceRule" ->
             <<LockEv("WORKSPACE_RULES"), UnlockEv("WORKSPACE_RULES"),
               CallEv("enforce_workspace_rules")>>
      [] message.type = "ManageRule" ->
             <<LockEv("MANAGE_IDENTIFIERS"), UnlockEv("MANAGE_IDENTIFIERS")>>
      [] message.type = "FloatRule" ->
             <<LockEv("FLOAT_IDENTIFIERS"), UnlockEv("FLOAT_IDENTIFIERS")>>
      [] message.type = "IdentifyBorderOverflow" ->
             <<LockEv("BORDER_OVERFLOW_IDENTIFIERS"),
               UnlockEv("BORDER_OVERFLOW_IDENTIFIERS")>>
      [] message.type = "IdentifyTrayApplication" ->
             <<LockEv("TRAY_AND_MULTI_WINDOW_IDENTIFIERS"),
               UnlockEv("TRAY_AND_MULTI_WINDOW_IDENTIFIERS")>>
      [] message.type \in {"AddSubscriber", "RemoveSubscriber"} ->
             <<LockEv(SubscriberMutex), UnlockEv(SubscriberMutex)>>
      [] OTHER -> <<>>

\* notify_subscribers walks the registry under its mutex.
BroadcastEvents == <<LockEv(SubscriberMutex), UnlockEv(SubscriberMutex)>>

\* process_command is not called for a line ignored while paused.
CommandEvents(e) ==
    IF e.paused /\ e.msg.type \notin HonouredWhilePaused
    THEN <<>>
    ELSE LockEvents(e.msg)
\* The events of a line of the stream, the broadcast that followed included.
EventsOf(e) == CommandEvents(e) \o (IF e.notified THEN BroadcastEvents ELSE <<>>)

\* The inner mutexes held after the first k events.
Held(ev, k) ==
    {x \in RuleMutexes \cup {SubscriberMutex} :
        \E i \in 1..k :
            /\ ev[i] = LockEv(x)
            /\ \A j \in (i + 1)..k : ev[j] # UnlockEv(x)}

LockSpecLines ==
    {MsgWsRule("foo.exe", 0, 0), MsgId("ManageRule", "foo.exe"),
     MsgId("FloatRule", "foo.exe"), MsgId("IdentifyBorderOverflow", "foo.exe"),
     MsgId("IdentifyTrayApplication", "bar.exe"), MsgId("AddSubscriber", "sub1"),
     MsgId("RemoveSubscriber", "sub1"), Message("TogglePause")}
InitLocks == InitWith({1}, {TRUE}, {FALSE})
NextLocks ==
    \/ client_connect("c1")
    \/ \E line \in LockSpecLines : client_send("c1", line, 1)
    \/ client_close("c1")
    \/ listener_accept
    \/ listener_lock
    \/ read_commands
    \/ read_commands_eof
    \/ notify_subscribers
    \/ other_lock
    \/ other_unlock
SpecLocks == InitLocks /\ [][NextLocks]_vars

TableLines ==
    {MsgWsRule("foo.exe", 0, 0), MsgWsRule("foo.exe", 0, 1),
     MsgId("ManageRule", "foo.exe"), MsgId("FloatRule", "foo.exe"),
     MsgId("IdentifyBorderOverflow", "foo.exe"),
     MsgId("IdentifyTrayApplication", "bar.exe"),
     Message("ToggleMouseFollowsFocus")}
InitTables == InitWith({1}, {TRUE}, {FALSE})
NextTables ==
    \/ client_connect("c1")
    \/ \E line \in TableLines : client_send("c1", line, 2)
    \/ client_close("c1")
    \/ listener_accept
    \/ listener_lock
    \/ read_commands
    \/ read_commands_eof
    \/ notify_subscribers
SpecTables == InitTables /\ [][NextTables]_vars

\* The table a command writes, by the name of its static.
OwnTable(type) ==
    CASE type = "ManageRule" -> {"MANAGE_IDENTIFIERS"}
      [] type = "FloatRule" -> {"FLOAT_IDENTIFIERS"}
      [] type = "IdentifyBorderOverflow" -> {"BORDER_OVERFLOW_IDENTIFIERS"}
      [] type = "IdentifyTrayApplication" -> {"TRAY_AND_MULTI_WINDOW_IDENTIFIERS"}
      [] type = "WorkspaceRule" -> {"WORKSPACE_RULES"}
      [] OTHER -> {}

\* The tables the step changes.
TablesChanged ==
    {t \in RuleMutexes :
        CASE t = "MANAGE_IDENTIFIERS" -> MANAGE_IDENTIFIERS' # MANAGE_IDENTIFIERS
          [] t = "FLOAT_IDENTIFIERS" -> FLOAT_IDENTIFIERS' # FLOAT_IDENTIFIERS
          [] t = "BORDER_OVERFLOW_IDENTIFIERS" ->
                 BORDER_OVERFLOW_IDENTIFIERS' # BORDER_OVERFLOW_IDENTIFIERS
          [] t = "TRAY_AND_MULTI_WINDOW_IDENTIFIERS" ->
                 TRAY_AND_MULTI_WINDOW_IDENTIFIERS' # TRAY_AND_MULTI_WINDOW_IDENTIFIERS
          [] OTHER -> WORKSPACE_RULES' # WORKSPACE_RULES}

\* C24: a rule table is changed only by its own rule command: ManageRule
\* changes no table but MANAGE_IDENTIFIERS, FloatRule none but
\* FLOAT_IDENTIFIERS, IdentifyBorderOverflow none but
\* BORDER_OVERFLOW_IDENTIFIERS, IdentifyTrayApplication none but
\* TRAY_AND_MULTI_WINDOW_IDENTIFIERS, WorkspaceRule none but WORKSPACE_RULES,
\* where the rule of an identifier already present gets the new target and
\* every other identifier keeps its rule (one entry per identifier); every
\* other command, and every step that handles no command, leaves the five
\* tables as they are.
C24_TablesChangedByOwnCommand ==
    /\ [][~ReadsLine => TablesChanged = {}]_vars
    /\ [][ReadsLine => TablesChanged \subseteq OwnTable(LineRead.msg.type)]_vars
    /\ [][(ReadsLine /\ LineRead.msg.type = "WorkspaceRule" /\ ~LineRead.paused) =>
             /\ DOMAIN WORKSPACE_RULES' = DOMAIN WORKSPACE_RULES \cup {LineRead.msg.id}
             /\ \A id \in DOMAIN WORKSPACE_RULES' :
                    WORKSPACE_RULES'[id] =
                        IF id = LineRead.msg.id
                        THEN <<LineRead.msg.idx, LineRead.msg.n>>
                        ELSE WORKSPACE_RULES[id]]_vars

\* A second WorkspaceRule for foo.exe replaced the target of the first, the
\* other tables holding what their own commands had put there.
C24_Witness ==
    /\ Len(clog) = 2
    /\ clog[1].msg = MsgWsRule("foo.exe", 0, 0)
    /\ clog[2].msg = MsgWsRule("foo.exe", 0, 1)
    /\ clog[2].result = "ok"
    /\ DOMAIN WORKSPACE_RULES = {"foo.exe"}
    /\ WORKSPACE_RULES["foo.exe"] = <<0, 1>>
    /\ MANAGE_IDENTIFIERS = <<"foo.exe">>
    /\ TRAY_AND_MULTI_WINDOW_IDENTIFIERS = <<"bar.exe">>
    /\ BORDER_OVERFLOW_IDENTIFIERS = <<>>

\* ------------------------------------ resize deltas parallel to containers

\* C25: the resize deltas of the focused workspace stay parallel to its
\* containers: whatever commands were handled, QuickSave and QuickLoad with
\* containers added between them included, the focused workspace has as
\* many resize deltas as containers.
C25_DeltasParallelToContainers ==
    has_focused_workspace =>
        Len(focused_workspace.resize_dimensions) = focused_workspace.containers

\* The same, up to the first QuickLoad that sets the deltas from the file.
ParallelUntilQuickLoad ==
    [][(/\ has_focused_workspace
        /\ Len(focused_workspace.resize_dimensions) = focused_workspace.containers
        /\ ~(ReadsLine /\ LineRead.msg.type = "QuickLoad"))
       => Len(focused_workspace'.resize_dimensions) = focused_workspace'.containers]_vars

============================================================================
